---- MODULE Spec2Model ----
(***************************************************************************)
(* A model of SAUVW_DB.py, the Streamlit page of the Text Mined Crystal    *)
(* Structure Database of Superconductors.  One behaviour is one run of the *)
(* page script, from the library imports to the references footer.         *)
(*                                                                         *)
(* Text is a sequence of one-character strings, so that lower(), strip(),  *)
(* replace() and the substring test are computed character by character.   *)
(* An optional value (None or a value) is a sequence of length 0 or 1.     *)
(* Calls of st.header / st.dataframe / st.markdown are taken not to throw. *)
(***************************************************************************)
EXTENDS Integers, Sequences, FiniteSets, TLC

VARIABLES
    pc,                         \* position of the script
    CRYSTAL_TOOLKIT_AVAILABLE,  \* line 24 / 33
    PY3DMOL_AVAILABLE,          \* line 36 / 40
    csFile,                     \* what line 109-111 found at CS_CSV
    benchFile,                  \* what line 121-123 found at BENCH_CSV
    data_cs_f,                  \* line 106 / 111
    data_benchmark,             \* line 107 / 123
    displayed,                  \* tables handed to st.dataframe
    material_id_col,            \* line 172 / 174
    mask,                       \* line 175
    available_materials,        \* line 171 / 180
    selectbox,                  \* whether the selection control and trigger are on the page
    chosen,                     \* line 191
    view_btn,                   \* line 192
    disk,                       \* the paths of crystal_structure/ that exist
    cif_path,                   \* line 198 / 203
    messages,                   \* the banners and notes emitted, in order
    embedded,                   \* viewer markup handed to st.components.v1.html
    calls                       \* calls of the structure parser and the renderers, in order

vars == <<pc, CRYSTAL_TOOLKIT_AVAILABLE, PY3DMOL_AVAILABLE, csFile, benchFile,
          data_cs_f, data_benchmark, displayed, material_id_col, mask,
          available_materials, selectbox, chosen, view_btn, disk, cif_path,
          messages, embedded, calls>>

(***************************************************************************)
(* Bounds of the explored inputs.                                          *)
(***************************************************************************)
MaxCols == 2
MaxRows == 2
PageRows == 2

(***************************************************************************)
(* Text primitives of Python used by the script.                           *)
(***************************************************************************)
UpperLetters == <<"A","B","C","D","E","F","G","H","I","J","K","L","M",
                  "N","O","P","Q","R","S","T","U","V","W","X","Y","Z">>

LowerLetters == <<"a","b","c","d","e","f","g","h","i","j","k","l","m",
                  "n","o","p","q","r","s","t","u","v","w","x","y","z">>

Digits == <<"0","1","2","3","4","5","6","7","8","9">>

Whitespace == {" ", "\t", "\n", "\r"}

\* str.lower() on one character
LowerChar(c) ==
    IF \E i \in 1..26 : UpperLetters[i] = c
    THEN LowerLetters[CHOOSE i \in 1..26 : UpperLetters[i] = c]
    ELSE c

\* str.lower()
StrLower(s) == [i \in 1..Len(s) |-> LowerChar(s[i])]

RECURSIVE LStrip(_)
LStrip(s) ==
    IF s # <<>> /\ Head(s) \in Whitespace THEN LStrip(Tail(s)) ELSE s

RECURSIVE RStrip(_)
RStrip(s) ==
    IF s # <<>> /\ s[Len(s)] \in Whitespace
    THEN RStrip(SubSeq(s, 1, Len(s) - 1))
    ELSE s

\* a strip that forgets the trailing side
StrStrip_LeftOnly(s) == LStrip(s)

\* str.strip()
StrStrip(s) == RStrip(LStrip(s))

IsPrefix(p, s) == Len(p) <= Len(s) /\ SubSeq(s, 1, Len(p)) = p

\* `sub in s` on str: a scan from the left
RECURSIVE StrContains(_, _)
StrContains(s, sub) ==
    IF Len(s) < Len(sub) THEN FALSE
    ELSE IF IsPrefix(sub, s) THEN TRUE
    ELSE StrContains(Tail(s), sub)

\* str.replace(old, new) for one-character old and new
RECURSIVE StrReplace(_, _, _)
StrReplace(s, old, new) ==
    IF s = <<>> THEN <<>>
    ELSE <<IF Head(s) = old THEN new ELSE Head(s)>> \o StrReplace(Tail(s), old, new)

\* str() of a non-negative int
RECURSIVE IntToStr(_)
IntToStr(n) ==
    IF n < 10 THEN <<Digits[n + 1]>>
    ELSE IntToStr(n \div 10) \o <<Digits[(n % 10) + 1]>>

(***************************************************************************)
(* Cells and tables.  A cell of a DataFrame read by pd.read_csv is text,   *)
(* an integer, or NaN (an empty field).  A table has ordered, distinct     *)
(* column names and ordered rows, each row one cell per column.            *)
(***************************************************************************)
StrCell(s) == [t |-> "str", s |-> s, n |-> 0]
IntCell(n) == [t |-> "int", s |-> <<>>, n |-> n]
NaN == [t |-> "nan", s |-> <<>>, n |-> 0]

\* astype(str) on one cell
AsStr(cell) ==
    CASE cell.t = "str" -> cell.s
      [] cell.t = "int" -> IntToStr(cell.n)
      [] OTHER          -> <<"n","a","n">>

Table(cols, rows) == [columns |-> cols, rows |-> rows]

\* df[col]: the cells of a column, in row order
Column(df, col) ==
    LET k == CHOOSE k \in 1..Len(df.columns) : df.columns[k] = col
    IN  [i \in 1..Len(df.rows) |-> df.rows[i][k]]

\* `c in df.columns`
HasColumn(df, c) == \E k \in 1..Len(df.columns) : df.columns[k] = c

(***************************************************************************)
(* Names.                                                                  *)
(***************************************************************************)
N_Material_ID  == <<"M","a","t","e","r","i","a","l","-","I","D">>
N_Material_ID_ == <<"M","a","t","e","r","i","a","l","_","I","D">>
N_material_id  == <<"m","a","t","e","r","i","a","l","-","i","d">>
N_material_id_ == <<"m","a","t","e","r","i","a","l","_","i","d">>
N_materialid   == <<"m","a","t","e","r","i","a","l","i","d">>
N_MaterialID   == <<"M","a","t","e","r","i","a","l","I","D">>
N_Material_Id  == <<"M","a","t","e","r","i","a","l"," ","I","d">>

N_cif_available   == <<"c","i","f","_","a","v","a","i","l","a","b","l","e">>
N_cif_available_s == <<"c","i","f"," ","a","v","a","i","l","a","b","l","e">>
N_cif             == <<"c","i","f">>
N_has_cif         == <<"h","a","s","_","c","i","f">>
N_cif_available_q == <<"c","i","f","_","a","v","a","i","l","a","b","l","e","?">>

\* names that are no alias
N_MATERIAL_ID_UP  == <<"M","A","T","E","R","I","A","L","_","I","D">>
N_Material_Name   == <<"M","a","t","e","r","i","a","l"," ","N","a","m","e">>
N_ID              == <<"I","D">>
N_Tc              == <<"T","c">>
N_CIF_note        == <<"C","I","F","_","n","o","t","e">>
N_material_cif_id == <<"m","a","t","e","r","i","a","l","_","c","i","f","_","i","d">>

W_material == <<"m","a","t","e","r","i","a","l">>
W_id       == <<"i","d">>
W_cif      == <<"c","i","f">>
W_yes      == <<"y","e","s">>

\* line 138
MaterialIdCandidates ==
    <<N_Material_ID, N_Material_ID_, N_material_id, N_material_id_,
      N_materialid, N_MaterialID, N_Material_Id>>

\* line 152
CifCandidates ==
    <<N_cif_available, N_cif_available_s, N_cif, N_has_cif, N_cif_available_q>>

(***************************************************************************)
(* get_material_id_column and get_cif_available_mask.                      *)
(***************************************************************************)
\* the first candidate, from position k on, that is a column (lines 139-141, 154-157)
RECURSIVE FirstCandidate(_, _, _)
FirstCandidate(df, candidates, k) ==
    IF k > Len(candidates) THEN <<>>
    ELSE IF HasColumn(df, candidates[k]) THEN <<candidates[k]>>
    ELSE FirstCandidate(df, candidates, k + 1)

\* a fallback test that follows the comment of line 142: 'material' or 'id'
IsMaterialIdLike_Or(c) ==
    StrContains(StrLower(c), W_material) \/ StrContains(StrLower(c), W_id)

\* line 144
IsMaterialIdLike(c) ==
    StrContains(StrLower(c), W_material) /\ StrContains(StrLower(c), W_id)

\* line 161
IsCifLike(c) == StrContains(StrLower(c), W_cif)

\* lines 143-145: the first column, from position k on, that passes the test of line 144
RECURSIVE FirstMaterialIdLike(_, _)
FirstMaterialIdLike(df, k) ==
    IF k > Len(df.columns) THEN <<>>
    ELSE IF IsMaterialIdLike(df.columns[k]) THEN <<df.columns[k]>>
    ELSE FirstMaterialIdLike(df, k + 1)

\* lines 160-163: the first column, from position k on, that passes the test of line 161
RECURSIVE FirstCifLike(_, _)
FirstCifLike(df, k) ==
    IF k > Len(df.columns) THEN <<>>
    ELSE IF IsCifLike(df.columns[k]) THEN <<df.columns[k]>>
    ELSE FirstCifLike(df, k + 1)

\* lines 136-146
get_material_id_column(df) ==
    LET hit == FirstCandidate(df, MaterialIdCandidates, 1)
    IN  IF hit # <<>> THEN hit ELSE FirstMaterialIdLike(df, 1)

\* lines 152-163: the local `col`
CifColumn(df) ==
    LET hit == FirstCandidate(df, CifCandidates, 1)
    IN  IF hit # <<>> THEN hit ELSE FirstCifLike(df, 1)

\* line 167 on one cell
IsYes(cell) == StrLower(StrStrip(AsStr(cell))) = W_yes

\* a mask that is open when no availability column is found
get_cif_available_mask_Open(df) ==
    LET col == CifColumn(df)
    IN  IF col = <<>> THEN [i \in 1..Len(df.rows) |-> TRUE]
        ELSE [i \in 1..Len(df.rows) |-> IsYes(Column(df, col[1])[i])]

\* lines 149-168
get_cif_available_mask(df) ==
    LET col == CifColumn(df)
    IN  IF col = <<>> THEN [i \in 1..Len(df.rows) |-> FALSE]
        ELSE [i \in 1..Len(df.rows) |-> IsYes(Column(df, col[1])[i])]

\* df.loc[mask, col]: the cells of the rows the mask keeps, in row order
RECURSIVE Loc(_, _, _)
Loc(series, m, i) ==
    IF i > Len(series) THEN <<>>
    ELSE (IF m[i] THEN <<series[i]>> ELSE <<>>) \o Loc(series, m, i + 1)

\* line 180
AvailableList(df, m, col) ==
    LET kept == Loc(Column(df, col), m, 1)
    IN  [k \in 1..Len(kept) |-> AsStr(kept[k])]

(***************************************************************************)
(* The inputs explored.                                                    *)
(***************************************************************************)
ColumnNames ==
    {N_Material_ID, N_material_id_, N_Material_Id, N_MATERIAL_ID_UP,
     N_Material_Name, N_ID, N_Tc, N_cif_available, N_cif, N_has_cif,
     N_CIF_note, N_material_cif_id}

T_Yes    == <<"Y","e","s">>
T_yes_sp == <<" ","y","e","s","\t">>
T_no     == <<"n","o">>
T_A_1_b  == <<"A"," ","1"," ","b">>

CellValues ==
    {StrCell(T_Yes), StrCell(T_yes_sp), StrCell(T_no), NaN, IntCell(10)}

PageCellValues == {StrCell(T_Yes), StrCell(T_A_1_b), IntCell(10)}

IsInjective(q) == \A i, j \in 1..Len(q) : q[i] = q[j] => i = j

\* read_csv keeps column names distinct: the headers of 1 to n columns
Headers(names, n) ==
    {h \in UNION {[1..k -> names] : k \in 1..n} : IsInjective(h)}

\* the tables of n rows under header h
RowsOf(h, cells, n) == [1..n -> [1..Len(h) -> cells]]

\* few headers, to go with many cells
RowHeaders ==
    {<<N_Material_ID, N_cif_available>>, <<N_CIF_note, N_MATERIAL_ID_UP>>,
     <<N_material_cif_id>>}

\* the headers of the composition file on the page
PageHeaders ==
    {<<N_Material_ID, N_cif_available>>, <<N_Tc, N_cif_available>>,
     <<N_Material_ID, N_Tc>>}

BenchTable == Table(<<N_Tc>>, <<>>)

(***************************************************************************)
(* The page.                                                               *)
(***************************************************************************)
Msg(kind, about) == [kind |-> kind, about |-> about]

Emit(kind, about) == Append(messages, Msg(kind, about))

Call(op, tier, ok) == [op |-> op, tier |-> tier, path |-> cif_path[1], ok |-> ok]

Unread == [state |-> "unread", content |-> <<>>]

\* line 50-53 and f"{matid}.cif"
CIF_DIR == <<"c","r","y","s","t","a","l","_","s","t","r","u","c","t","u","r","e","/">>

CifExt == <<".","c","i","f">>

\* line 198
LiteralPath(matid) == CIF_DIR \o matid \o CifExt

\* line 201
AltPath(matid) == CIF_DIR \o StrReplace(matid, " ", "_") \o CifExt

\* Path.exists()
Exists(path) == path \in disk

Init ==
    /\ pc = "import_pymatgen"
    /\ CRYSTAL_TOOLKIT_AVAILABLE = TRUE
    /\ PY3DMOL_AVAILABLE = TRUE
    /\ csFile = Unread
    /\ benchFile = Unread
    /\ data_cs_f = <<>>
    /\ data_benchmark = <<>>
    /\ displayed = {}
    /\ material_id_col = <<>>
    /\ mask = <<>>
    /\ available_materials = <<>>
    /\ selectbox = FALSE
    /\ chosen = <<>>
    /\ view_btn = FALSE
    /\ disk = {}
    /\ cif_path = <<>>
    /\ messages = <<>>
    /\ embedded = <<>>
    /\ calls = <<>>

\* lines 17-21
ImportPymatgen ==
    /\ pc = "import_pymatgen"
    /\ \E ok \in BOOLEAN :
         IF ok
         THEN /\ pc' = "import_crystal_toolkit"
              /\ UNCHANGED messages
         ELSE /\ messages' = Emit("error", <<"pymatgen_required">>)
              /\ pc' = "aborted"
    /\ UNCHANGED <<CRYSTAL_TOOLKIT_AVAILABLE, PY3DMOL_AVAILABLE, csFile, benchFile,
                   data_cs_f, data_benchmark, displayed, material_id_col, mask,
                   available_materials, selectbox, chosen, view_btn, disk,
                   cif_path, embedded, calls>>

\* lines 24-33
ImportCrystalToolkit ==
    /\ pc = "import_crystal_toolkit"
    /\ \E ok \in BOOLEAN : CRYSTAL_TOOLKIT_AVAILABLE' = ok
    /\ pc' = "import_py3dmol"
    /\ UNCHANGED <<PY3DMOL_AVAILABLE, csFile, benchFile, data_cs_f, data_benchmark,
                   displayed, material_id_col, mask, available_materials, selectbox,
                   chosen, view_btn, disk, cif_path, messages, embedded, calls>>

\* lines 36-40, then the static header of lines 45-101
ImportPy3Dmol ==
    /\ pc = "import_py3dmol"
    /\ \E ok \in BOOLEAN : PY3DMOL_AVAILABLE' = ok
    /\ pc' = "load_cs"
    /\ UNCHANGED <<CRYSTAL_TOOLKIT_AVAILABLE, csFile, benchFile, data_cs_f,
                   data_benchmark, displayed, material_id_col, mask,
                   available_materials, selectbox, chosen, view_btn, disk, cif_path,
                   messages, embedded, calls>>

\* what can be found at the path of a dataset
FileStates == {"missing", "malformed", "ok"}

File(state, t) == [state |-> state, content |-> IF state = "ok" THEN <<t>> ELSE <<>>]

\* a load that keeps quiet about a missing file
LoadCsv_Quiet(file, name) ==
    CASE file.state = "ok" ->
           [data |-> file.content, shown |-> {name}, msgs |-> <<>>]
      [] file.state = "malformed" ->
           [data |-> <<>>, shown |-> {}, msgs |-> <<Msg("error", <<"failed_to_load", name>>)>>]
      [] OTHER ->
           [data |-> <<>>, shown |-> {}, msgs |-> <<>>]

\* lines 109-117 and 121-129: the table, what is displayed, what is reported
LoadCsv(file, name) ==
    CASE file.state = "ok" ->
           [data |-> file.content, shown |-> {name}, msgs |-> <<>>]
      [] file.state = "malformed" ->
           [data |-> <<>>, shown |-> {}, msgs |-> <<Msg("error", <<"failed_to_load", name>>)>>]
      [] OTHER ->
           [data |-> <<>>, shown |-> {}, msgs |-> <<Msg("warning", <<"not_found", name>>)>>]

\* lines 106-117
LoadCS ==
    /\ pc = "load_cs"
    /\ \E state \in FileStates, h \in PageHeaders, n \in 0..PageRows :
       \E rows \in RowsOf(h, PageCellValues, n) :
         LET file == File(state, Table(h, rows))
             r    == LoadCsv(file, "cs")
         IN
         /\ csFile' = file
         /\ data_cs_f' = r.data
         /\ displayed' = displayed \cup r.shown
         /\ messages' = messages \o r.msgs
    /\ pc' = "load_bench"
    /\ UNCHANGED <<CRYSTAL_TOOLKIT_AVAILABLE, PY3DMOL_AVAILABLE, benchFile,
                   data_benchmark, material_id_col, mask, available_materials,
                   selectbox, chosen, view_btn, disk, cif_path, embedded, calls>>

\* lines 119-129
LoadBench ==
    /\ pc = "load_bench"
    /\ \E state \in FileStates :
         LET file == File(state, BenchTable)
             r    == LoadCsv(file, "bench")
         IN
         /\ benchFile' = file
         /\ data_benchmark' = r.data
         /\ displayed' = displayed \cup r.shown
         /\ messages' = messages \o r.msgs
    /\ pc' = "prepare"
    /\ UNCHANGED <<CRYSTAL_TOOLKIT_AVAILABLE, PY3DMOL_AVAILABLE, csFile, data_cs_f,
                   material_id_col, mask, available_materials, selectbox, chosen,
                   view_btn, disk, cif_path, embedded, calls>>

\* lines 171-180
PrepareAvailable ==
    /\ pc = "prepare"
    /\ IF data_cs_f = <<>>
       THEN UNCHANGED <<material_id_col, mask, available_materials, messages>>
       ELSE LET df  == data_cs_f[1]
                col == get_material_id_column(df)
                m   == get_cif_available_mask(df)
            IN  /\ material_id_col' = col
                /\ mask' = m
                /\ IF col = <<>>
                   THEN /\ messages' = Emit("warning", <<"material_id_not_detected">>)
                        /\ UNCHANGED available_materials
                   ELSE /\ available_materials' = AvailableList(df, m, col[1])
                        /\ UNCHANGED messages
    /\ pc' = "viewer"
    /\ UNCHANGED <<CRYSTAL_TOOLKIT_AVAILABLE, PY3DMOL_AVAILABLE, csFile, benchFile,
                   data_cs_f, data_benchmark, displayed, selectbox, chosen, view_btn,
                   disk, cif_path, embedded, calls>>

\* the members of a sequence
Range(q) == {q[i] : i \in 1..Len(q)}

\* lines 185-192: the section header, then the note or the two controls
ViewerSection ==
    /\ pc = "viewer"
    /\ IF available_materials = <<>>
       THEN /\ messages' = Emit("info", <<"no_cifs_detected">>)
            /\ pc' = "footer"
            /\ UNCHANGED <<selectbox, chosen, view_btn>>
       ELSE /\ selectbox' = TRUE
            /\ \E c \in Range(available_materials), pressed \in BOOLEAN :
                 /\ chosen' = <<c>>
                 /\ view_btn' = pressed
                 /\ pc' = IF pressed THEN "resolve" ELSE "footer"
            /\ UNCHANGED messages
    /\ UNCHANGED <<CRYSTAL_TOOLKIT_AVAILABLE, PY3DMOL_AVAILABLE, csFile, benchFile,
                   data_cs_f, data_benchmark, displayed, material_id_col, mask,
                   available_materials, disk, cif_path, embedded, calls>>

\* a resolution that prefers the underscore variant
ResolvedPath_AltFirst(matid, files) ==
    IF AltPath(matid) \in files THEN AltPath(matid) ELSE LiteralPath(matid)

\* lines 198-203: the value of cif_path after the lookup
ResolvedPath(matid, files) ==
    IF LiteralPath(matid) \in files THEN LiteralPath(matid)
    ELSE IF AltPath(matid) \in files THEN AltPath(matid)
    ELSE LiteralPath(matid)

\* lines 194-207; crystal_structure/ is first looked at here, so its content is drawn here
ResolvePath ==
    /\ pc = "resolve"
    /\ \E files \in SUBSET {LiteralPath(chosen[1]), AltPath(chosen[1])} :
         LET matid == chosen[1] IN
         /\ disk' = files
         /\ cif_path' = <<ResolvedPath(matid, files)>>
         /\ messages' =
              IF LiteralPath(matid) \in files THEN Emit("success", <<"found_cif">>)
              ELSE IF AltPath(matid) \in files THEN messages
              ELSE Emit("error", <<"cif_not_found">>)
    /\ pc' = "render"
    /\ UNCHANGED <<CRYSTAL_TOOLKIT_AVAILABLE, PY3DMOL_AVAILABLE, csFile, benchFile,
                   data_cs_f, data_benchmark, displayed, material_id_col, mask,
                   available_materials, selectbox, chosen, view_btn, embedded, calls>>

\* a guard that renders whatever the lookup found
RenderGuard_Always == TRUE

\* line 209
RenderGuard == Exists(cif_path[1])

\* lines 209-211, 260-262, 274-278: which renderer is entered
RenderDispatch ==
    /\ pc = "render"
    /\ IF ~RenderGuard
       THEN /\ pc' = "footer"
            /\ UNCHANGED messages
       ELSE IF CRYSTAL_TOOLKIT_AVAILABLE
       THEN /\ pc' = "ctk_parse"
            /\ UNCHANGED messages
       ELSE IF PY3DMOL_AVAILABLE
       THEN /\ pc' = "py3dmol_only"
            /\ UNCHANGED messages
       ELSE /\ messages' = Emit("error", <<"no_viewer_installed">>)
            /\ pc' = "footer"
    /\ UNCHANGED <<CRYSTAL_TOOLKIT_AVAILABLE, PY3DMOL_AVAILABLE, csFile, benchFile,
                   data_cs_f, data_benchmark, displayed, material_id_col, mask,
                   available_materials, selectbox, chosen, view_btn, disk, cif_path,
                   embedded, calls>>

\* line 214: Structure.from_file, which returns or throws
CtkParse ==
    /\ pc = "ctk_parse"
    /\ \E ok \in BOOLEAN :
         /\ calls' = Append(calls, Call("parse", "primary", ok))
         /\ pc' = IF ok THEN "ctk_scene" ELSE "ctk_except"
    /\ UNCHANGED <<CRYSTAL_TOOLKIT_AVAILABLE, PY3DMOL_AVAILABLE, csFile, benchFile,
                   data_cs_f, data_benchmark, displayed, material_id_col, mask,
                   available_materials, selectbox, chosen, view_btn, disk, cif_path,
                   messages, embedded>>

\* lines 218-228: the Scene attempt; any throw of it enters the handler of line 228
CtkScene ==
    /\ pc = "ctk_scene"
    /\ \E ok \in BOOLEAN :
         /\ calls' = Append(calls, Call("scene", "primary", ok))
         /\ embedded' = IF ok THEN Append(embedded, "scene") ELSE embedded
         /\ pc' = IF ok THEN "footer" ELSE "ctk_component"
    /\ UNCHANGED <<CRYSTAL_TOOLKIT_AVAILABLE, PY3DMOL_AVAILABLE, csFile, benchFile,
                   data_cs_f, data_benchmark, displayed, material_id_col, mask,
                   available_materials, selectbox, chosen, view_btn, disk, cif_path,
                   messages>>

\* what StructureMoleculeComponent turns out to be (lines 230-240)
ComponentOutcomes ==
    {"constructor_throws", "repr_html", "repr_html_throws", "show", "show_throws",
     "no_method"}

\* lines 229-240: the StructureMoleculeComponent attempt
CtkComponent ==
    /\ pc = "ctk_component"
    /\ \E o \in ComponentOutcomes :
         /\ calls' = Append(calls, Call("component", "primary", o \in {"repr_html", "show"}))
         /\ embedded' = IF o = "repr_html" THEN Append(embedded, "component") ELSE embedded
         /\ messages' =
              CASE o = "show"      -> Emit("info", <<"displayed_via_show">>)
                [] o = "no_method" -> Emit("warning", <<"ctk_render_failed">>)
                [] OTHER           -> messages
         /\ pc' = IF o \in {"repr_html", "show"} THEN "footer" ELSE "ctk_except"
    /\ UNCHANGED <<CRYSTAL_TOOLKIT_AVAILABLE, PY3DMOL_AVAILABLE, csFile, benchFile,
                   data_cs_f, data_benchmark, displayed, material_id_col, mask,
                   available_materials, selectbox, chosen, view_btn, disk, cif_path>>

\* lines 241-244, 258-259: the handler of a failed Crystal Toolkit attempt
CtkExcept ==
    /\ pc = "ctk_except"
    /\ IF PY3DMOL_AVAILABLE
       THEN /\ messages' = Emit("write", <<"ctk_failed_note">>)
            /\ pc' = "py3dmol_fallback"
       ELSE /\ messages' = Append(Emit("write", <<"ctk_failed_note">>),
                                  Msg("error", <<"py3dmol_not_installed">>))
            /\ pc' = "footer"
    /\ UNCHANGED <<CRYSTAL_TOOLKIT_AVAILABLE, PY3DMOL_AVAILABLE, csFile, benchFile,
                   data_cs_f, data_benchmark, displayed, material_id_col, mask,
                   available_materials, selectbox, chosen, view_btn, disk, cif_path,
                   embedded, calls>>

\* how a py3Dmol block ends (lines 246-257, 263-273)
Py3DmolOutcomes == {"parse_throws", "render_throws", "rendered"}

\* the calls a py3Dmol block makes: Structure.from_file, then the py3Dmol view
Py3DmolCalls(o) ==
    IF o = "parse_throws"
    THEN <<Call("parse", "secondary", FALSE)>>
    ELSE <<Call("parse", "secondary", TRUE), Call("py3dmol", "secondary", o = "rendered")>>

\* lines 246-257: py3Dmol after Crystal Toolkit failed
Py3DmolFallback ==
    /\ pc = "py3dmol_fallback"
    /\ \E o \in Py3DmolOutcomes :
         /\ calls' = calls \o Py3DmolCalls(o)
         /\ embedded' = IF o = "rendered" THEN Append(embedded, "py3dmol") ELSE embedded
         /\ messages' = IF o = "rendered" THEN messages
                        ELSE Emit("error", <<"py3dmol_fallback_failed">>)
    /\ pc' = "footer"
    /\ UNCHANGED <<CRYSTAL_TOOLKIT_AVAILABLE, PY3DMOL_AVAILABLE, csFile, benchFile,
                   data_cs_f, data_benchmark, displayed, material_id_col, mask,
                   available_materials, selectbox, chosen, view_btn, disk, cif_path>>

\* lines 263-273: py3Dmol when Crystal Toolkit is not installed
Py3DmolOnly ==
    /\ pc = "py3dmol_only"
    /\ \E o \in Py3DmolOutcomes :
         /\ calls' = calls \o Py3DmolCalls(o)
         /\ embedded' = IF o = "rendered" THEN Append(embedded, "py3dmol") ELSE embedded
         /\ messages' = IF o = "rendered" THEN messages
                        ELSE Emit("error", <<"py3dmol_failed">>)
    /\ pc' = "footer"
    /\ UNCHANGED <<CRYSTAL_TOOLKIT_AVAILABLE, PY3DMOL_AVAILABLE, csFile, benchFile,
                   data_cs_f, data_benchmark, displayed, material_id_col, mask,
                   available_materials, selectbox, chosen, view_btn, disk, cif_path>>

\* lines 280-295
Footer ==
    /\ pc = "footer"
    /\ pc' = "done"
    /\ UNCHANGED <<CRYSTAL_TOOLKIT_AVAILABLE, PY3DMOL_AVAILABLE, csFile, benchFile,
                   data_cs_f, data_benchmark, displayed, material_id_col, mask,
                   available_materials, selectbox, chosen, view_btn, disk, cif_path,
                   messages, embedded, calls>>

Next ==
    \/ ImportPymatgen
    \/ ImportCrystalToolkit
    \/ ImportPy3Dmol
    \/ LoadCS
    \/ LoadBench
    \/ PrepareAvailable
    \/ ViewerSection
    \/ ResolvePath
    \/ RenderDispatch
    \/ CtkParse
    \/ CtkScene
    \/ CtkComponent
    \/ CtkExcept
    \/ Py3DmolFallback
    \/ Py3DmolOnly
    \/ Footer

\* one run of the page
Spec == Init /\ [][Next]_vars

(***************************************************************************)
(* The column detectors and the eligible list on their own: the script     *)
(* stands before line 171 with a composition table loaded.                 *)
(***************************************************************************)
DetectStart(t) ==
    /\ pc = "prepare"
    /\ CRYSTAL_TOOLKIT_AVAILABLE = TRUE
    /\ PY3DMOL_AVAILABLE = TRUE
    /\ csFile = File("ok", t)
    /\ data_cs_f = <<t>>
    /\ benchFile = File("ok", BenchTable)
    /\ data_benchmark = <<BenchTable>>
    /\ displayed = {"cs", "bench"}
    /\ material_id_col = <<>>
    /\ mask = <<>>
    /\ available_materials = <<>>
    /\ selectbox = FALSE
    /\ chosen = <<>>
    /\ view_btn = FALSE
    /\ disk = {}
    /\ cif_path = <<>>
    /\ messages = <<>>
    /\ embedded = <<>>
    /\ calls = <<>>

\* many headers with every cell "Yes", or few headers with many cells
InitDetect ==
    \/ \E h \in Headers(ColumnNames, MaxCols), n \in 0..MaxRows :
         \E rows \in RowsOf(h, {StrCell(T_Yes)}, n) : DetectStart(Table(h, rows))
    \/ \E h \in RowHeaders, n \in 0..MaxRows :
         \E rows \in RowsOf(h, CellValues, n) : DetectStart(Table(h, rows))

NextDetect == PrepareAvailable

SpecDetect == InitDetect /\ [][NextDetect]_vars

(***************************************************************************)
(* Vocabulary of the properties, stated without the operators above.       *)
(***************************************************************************)
Min(S) == CHOOSE x \in S : \A y \in S : x <= y

\* two characters equal up to the case of an ASCII letter
CaseEq(c, d) ==
    c = d \/ \E i \in 1..26 : {c, d} = {UpperLetters[i], LowerLetters[i]}

\* s has a window that spells w up to case
ContainsCI(s, w) ==
    \E i \in 0..(Len(s) - Len(w)) : \A k \in 1..Len(w) : CaseEq(s[i + k], w[k])

SameTextCI(a, b) == Len(a) = Len(b) /\ \A i \in 1..Len(a) : CaseEq(a[i], b[i])

\* s is "yes" in any case between any whitespace
IsYesText(s) ==
    \E a \in 1..Len(s) :
        /\ a + 2 <= Len(s)
        /\ CaseEq(s[a], "y") /\ CaseEq(s[a + 1], "e") /\ CaseEq(s[a + 2], "s")
        /\ \A i \in 1..(a - 1) : s[i] \in Whitespace
        /\ \A i \in (a + 3)..Len(s) : s[i] \in Whitespace

YesCell(cell) == cell.t = "str" /\ IsYesText(cell.s)

RECURSIVE DecValue(_)
DecValue(t) ==
    IF t = <<>> THEN 0
    ELSE 10 * DecValue(SubSeq(t, 1, Len(t) - 1))
         + (CHOOSE d \in 0..9 : Digits[d + 1] = t[Len(t)])

\* t is the text of the cell
IsTextOf(t, cell) ==
    CASE cell.t = "str" -> t = cell.s
      [] cell.t = "int" -> /\ t # <<>>
                           /\ \A i \in 1..Len(t) : t[i] \in Range(Digits)
                           /\ Len(t) = 1 \/ t[1] # "0"
                           /\ DecValue(t) = cell.n
      [] OTHER          -> t = <<"n","a","n">>

\* the cell of row i under the column named col
CellAt(df, i, col) == df.rows[i][CHOOSE k \in 1..Len(df.columns) : df.columns[k] = col]

\* the aliases, by position in the alias list, that are column names
AliasesPresent(df, aliases) ==
    {k \in 1..Len(aliases) : \E j \in 1..Len(df.columns) : df.columns[j] = aliases[k]}

\* the column the alias-then-substring strategy picks, F being the positions of
\* the columns that pass the substring test
Picked(df, aliases, F) ==
    LET A == AliasesPresent(df, aliases)
    IN  IF A # {} THEN <<aliases[Min(A)]>>
        ELSE IF F # {} THEN <<df.columns[Min(F)]>>
        ELSE <<>>

NamesIdentifier(c) == ContainsCI(c, W_material) /\ ContainsCI(c, W_id)

NamesCif(c) == ContainsCI(c, W_cif)

IdentifierLike(df) == {j \in 1..Len(df.columns) : NamesIdentifier(df.columns[j])}

CifLike(df) == {j \in 1..Len(df.columns) : NamesCif(df.columns[j])}

Prepared == pc = "viewer" /\ data_cs_f # <<>>

(***************************************************************************)
(* Claims on the column detectors and the eligible list (SpecDetect).      *)
(***************************************************************************)
\* C1: when an identifier column and an availability column are detected,
\* available_materials is the text of the identifier cells of exactly the rows
\* whose availability cell is "yes" up to case and surrounding whitespace, in
\* row order, duplicates kept.
C1_EligibleIdentifiers ==
    (Prepared /\ material_id_col # <<>> /\ CifColumn(data_cs_f[1]) # <<>>) =>
        LET df    == data_cs_f[1]
            avail == CifColumn(df)[1]
            E     == {i \in 1..Len(df.rows) : YesCell(CellAt(df, i, avail))}
            Rank(i) == Cardinality({j \in E : j <= i})
        IN  /\ Len(available_materials) = Cardinality(E)
            /\ \A i \in E :
                 IsTextOf(available_materials[Rank(i)], CellAt(df, i, material_id_col[1]))

C1_Witness ==
    /\ Prepared
    /\ data_cs_f[1].columns = <<N_Material_ID, N_cif_available>>
    /\ data_cs_f[1].rows = <<<<IntCell(10), StrCell(T_yes_sp)>>,
                             <<IntCell(10), StrCell(T_Yes)>>>>
    /\ available_materials = <<<<"1","0">>, <<"1","0">>>>

Underscored(matid) == [i \in 1..Len(matid) |-> IF matid[i] = " " THEN "_" ELSE matid[i]]

Literal == CIF_DIR \o chosen[1] \o CifExt

Alternate == CIF_DIR \o Underscored(chosen[1]) \o CifExt

Resolved == cif_path # <<>>

\* C4: once the trigger has resolved the path, cif_path is the literal
\* <identifier>.cif when that exists, otherwise the space-to-underscore variant
\* when that exists; the parser and the renderers are only ever handed that
\* path, and it exists.
C4_PathResolution ==
    Resolved =>
        /\ Literal \in disk => cif_path[1] = Literal
        /\ (Literal \notin disk /\ Alternate \in disk) => cif_path[1] = Alternate
        /\ \A k \in 1..Len(calls) :
             calls[k].path = cif_path[1] /\ calls[k].path \in disk

C4_Witness ==
    /\ Resolved
    /\ chosen = <<T_A_1_b>>
    /\ disk = {CIF_DIR \o <<"A","_","1","_","b">> \o CifExt}
    /\ calls # <<>>
    /\ calls[1].path = CIF_DIR \o <<"A","_","1","_","b">> \o CifExt

\* C5: when neither <identifier>.cif nor its underscore variant exists, the
\* not-found error is on the page and neither the parser nor a renderer is
\* called and no viewer is embedded.
C5_NotFoundNoRender ==
    (Resolved /\ Literal \notin disk /\ Alternate \notin disk) =>
        /\ \E k \in 1..Len(messages) : messages[k] = Msg("error", <<"cif_not_found">>)
        /\ calls = <<>>
        /\ embedded = <<>>

C5_Witness ==
    /\ pc = "done"
    /\ Resolved
    /\ chosen = <<T_A_1_b>>
    /\ disk = {}
    /\ calls = <<>>

BothLoadsOver == csFile.state # "unread" /\ benchFile.state # "unread"

\* what a load owes the page for the file it found
LoadSettled(file, name, data) ==
    CASE file.state = "ok" ->
           data = file.content /\ name \in displayed
      [] file.state = "malformed" ->
           /\ data = <<>> /\ name \notin displayed
           /\ \E k \in 1..Len(messages) :
                messages[k] = Msg("error", <<"failed_to_load", name>>)
      [] OTHER ->
           /\ data = <<>> /\ name \notin displayed
           /\ \E k \in 1..Len(messages) :
                messages[k] = Msg("warning", <<"not_found", name>>)

\* C8: each dataset is loaded on its own: whatever happened to the other file,
\* a file that loads is kept and displayed, a missing or malformed one leaves a
\* warning or an error and no table, and the script goes on; without a
\* composition table no identifier is eligible and no selection control is
\* offered.
C8_IndependentLoads ==
    BothLoadsOver =>
        /\ LoadSettled(csFile, "cs", data_cs_f)
        /\ LoadSettled(benchFile, "bench", data_benchmark)
        /\ pc # "aborted"
        /\ csFile.state # "ok" => (available_materials = <<>> /\ ~selectbox)

C8_Witness ==
    /\ pc = "done"
    /\ csFile.state = "malformed"
    /\ benchFile.state = "ok"
    /\ "bench" \in displayed
    /\ ~selectbox

PrimaryThrew ==
    \E k \in 1..Len(calls) :
        calls[k].tier = "primary" /\ ~calls[k].ok /\ calls[k].op \in {"parse", "component"}

FallbackRendered ==
    \E k \in 1..Len(calls) : calls[k].op = "py3dmol" /\ calls[k].ok

PrimaryFailureAbouts == {<<"ctk_render_failed">>, <<"ctk_failed_note">>}

\* C6: when Crystal Toolkit throws and py3Dmol renders, the page embeds the
\* py3Dmol markup alone, and the failure of Crystal Toolkit shows as one note
\* and as no warning and no error.
C6_FallbackOnlyNote ==
    (pc = "done" /\ PrimaryThrew /\ FallbackRendered) =>
        /\ embedded = <<"py3dmol">>
        /\ Cardinality({k \in 1..Len(messages) :
                          messages[k].about \in PrimaryFailureAbouts}) = 1
        /\ \A k \in 1..Len(messages) :
             messages[k].about \in PrimaryFailureAbouts => messages[k].kind = "write"

\* C7: no failure ends the run before the footer, and a run that met a
\* failure shows a message.
C7_NothingAborts ==
    /\ pc # "aborted"
    /\ (pc = "done" /\ (csFile.state # "ok" \/ benchFile.state # "ok")) => messages # <<>>

RenderErrors ==
    {<<"py3dmol_fallback_failed">>, <<"py3dmol_not_installed">>, <<"py3dmol_failed">>,
     <<"no_viewer_installed">>}

SecondaryFailed ==
    \E k \in 1..Len(calls) : calls[k].tier = "secondary" /\ ~calls[k].ok

\* C9: the secondary renderer runs only after the primary threw or when it is
\* not installed, on the same path; a render error is shown only once the
\* secondary failed or is not installed; and the structure parse, the primary
\* renders and the secondary render are each performed at most once.
C9_TwoTierNoRepeat ==
    /\ \A k \in 1..Len(calls) :
         calls[k].tier = "secondary" =>
            \/ ~CRYSTAL_TOOLKIT_AVAILABLE
            \/ \E j \in 1..(k - 1) :
                 calls[j].tier = "primary" /\ ~calls[j].ok
                 /\ calls[j].op \in {"parse", "component"}
    /\ \A j, k \in 1..Len(calls) : calls[j].path = calls[k].path
    /\ \A k \in 1..Len(messages) :
         messages[k].about \in RenderErrors => (SecondaryFailed \/ ~PY3DMOL_AVAILABLE)
    /\ \A op \in {"parse", "scene", "component", "py3dmol"} :
         Cardinality({k \in 1..Len(calls) : calls[k].op = op}) <= 1

LoadAbouts ==
    {<<"failed_to_load", "cs">>, <<"not_found", "cs">>,
     <<"failed_to_load", "bench">>, <<"not_found", "bench">>}

\* the banners of the Structure Locator and of the viewer section
LocatorMessages == SelectSeq(messages, LAMBDA m : m.about \notin LoadAbouts)

\* C10: with a composition table loaded and no identifier column detected, the
\* warning is the only banner of the Structure Locator and of the viewer
\* section, and neither the selection control nor the trigger is offered.
C10_WarningOnly ==
    (pc = "done" /\ data_cs_f # <<>> /\ material_id_col = <<>>) =>
        /\ LocatorMessages = <<Msg("warning", <<"material_id_not_detected">>)>>
        /\ ~selectbox
        /\ ~view_btn

====
